---- MODULE Spec2Model ----
(***************************************************************************)
(* A model of rtve-go's fetch API (package api: FetchShow, FetchShowAll,   *)
(* FetchShowLatest) on top of the scraper's HTTP fetcher (Scrapper.get,    *)
(* ScrapePage, DownloadVideoMeta, FetchSubtitles).                         *)
(*                                                                         *)
(* The remote site is the environment: every request is answered by a      *)
(* nondeterministic choice among the answers the fetcher distinguishes.    *)
(* Errors are values: an error is a sequence of layers, outermost first;   *)
(* fmt.Errorf("...%w", e) puts a layer in front of e and keeps e's chain,  *)
(* fmt.Errorf("...%v", e) makes a fresh one-layer error, `==` compares the *)
(* whole value and errors.Is walks the chain.                              *)
(***************************************************************************)
EXTENDS Integers, Sequences, FiniteSets, TLC

VARIABLES
    pc,                      \* position in the running API call
    api, showID, startDate, endDate, maxVideos,   \* the call and its arguments
    stats,                   \* FetchShow: stats (*FetchStats), Nil before it is allocated
    page,                    \* FetchShow: page
    foundVideosInRange,      \* FetchShow: foundVideosInRange
    videos,                  \* FetchShow: videos of the page being processed
    idx,                     \* FetchShow: position of the range loop over videos
    videosProcessedThisPage, \* FetchShow: videosProcessedThisPage
    allVideosBeforeRange,    \* FetchShow: allVideosBeforeRange
    result,                  \* FetchShow: result (*VideoResult) being assembled
    probeVideos, probeIdx, anyInRange,   \* FetchShow: locals of the lookahead block
    count,                   \* FetchShowLatest: count of the wrapped visitor
    fsErr,                   \* error returned by FetchShow
    retStats, retErr,        \* what the called API function returned
    visitorCalls,            \* number of invocations of the caller's visitor
    visited,                 \* the result the last step passed to the caller's visitor, if it did
    visitorRet,              \* what the caller's visitor last returned
    visitorErr,              \* what the visitor given to FetchShow last returned
    pageErr,                 \* FetchShow: err of the main loop's ScrapePage(page)
    answer,                  \* the request of the last step and the server's answer to it
    listing,                 \* the site's listing when it is fixed: pages of publication seconds
    fn, arg, ret,            \* a function applied on its own: its name, argument and result
    spc,                     \* position in the running call of Scrape
    sMaxPages,               \* Scrape: maxPages
    sPage,                   \* Scrape: page
    links, li,               \* Scrape: links of the page and position of the range loop over them
    videosDownloaded,        \* Scrape: videosDownloaded
    errs,                    \* Scrape: errs
    sErr,                    \* Scrape: err of the last ScrapePage(page)
    disk,                    \* the output directory: the videos with a metadata file, with subtitle files
    disk0,                   \* the output directory when Scrape was called
    log                      \* what the running call of Scrape has requested and written

callVars   == <<api, showID, startDate, endDate, maxVideos>>
iterVars   == <<videos, idx, videosProcessedThisPage, allVideosBeforeRange, result>>
loopVars   == <<page, foundVideosInRange, iterVars>>
probeVars  == <<probeVideos, probeIdx, anyInRange>>
retVars    == <<fsErr, retStats, retErr>>
visitVars  == <<count, visitorCalls, visitorRet, visitorErr>>
fetchVars  == <<pc, callVars, stats, loopVars, probeVars, retVars, visitVars, visited, pageErr, answer>>
fnVars     == <<fn, arg, ret>>
scrapeVars == <<spc, sMaxPages, sPage, links, li, videosDownloaded, errs, sErr, disk, disk0, log>>
auxVars    == <<listing, fnVars, scrapeVars>>
vars == <<fetchVars, auxVars>>

----------------------------------------------------------------------------
(* Bounds of the model *)

MaxLinks == 2        \* links on one listing page
MaxPage == 2         \* last page index that may still list videos
MaxTime == 2         \* timestamps are the seconds 0..MaxTime
MaxVideosArg == 2    \* largest maxVideos passed to FetchShowLatest
MaxFaults == 1       \* per-video failures (metadata, date, subtitles) recorded in one run
MaxVideos == 2       \* videos of the show that Scrape may find listed
MaxLines == 2        \* lines of the page content given to scrape

Times == 0..MaxTime

(* start of FetchShowAll / FetchShowLatest: time.Date(2000, 1, 1, ...) *)
Date2000 == 1
(* end of FetchShowAll / FetchShowLatest: time.Now().Add(24 * time.Hour);
   one later second exists, so a video can be dated after it *)
NowPlus24h == MaxTime - 1

----------------------------------------------------------------------------
(* Values *)

Nil == [nil |-> TRUE]        \* a nil pointer
NoID == <<>>

nil == <<>>                  \* the nil error

NewError(msg) == <<msg>>          \* errors.New(msg), fmt.Errorf(msg)
WrapW(msg, e) == <<msg>> \o e     \* fmt.Errorf("msg: %w", e)
WrapV(msg, e) == <<msg>>          \* fmt.Errorf("msg: %v", e)

RECURSIVE ErrorsIs(_, _)
ErrorsIs(err, target) ==
    IF err = nil THEN FALSE
    ELSE IF err = target THEN TRUE
    ELSE ErrorsIs(Tail(err), target)

ErrPageNotFound == NewError("page not found")
ErrForbidden == NewError("access not allowed")
ErrMaxVideosReached == NewError("maximum video count reached")

(* urlMap's keys *)
urlMap == {"telediario-1", "telediario-2", "telediario-matinal", "informe-semanal"}
ListShows == urlMap
ShowArgs == {"telediario-1", "non-existent-show"}

----------------------------------------------------------------------------
(* Scrapper.get: the retry loop over the answers of the server.  An answer  *)
(* is an HTTP status, or 0 for a transport failure of client.Do.            *)

maxRetries == 3
initialBackoff == 1
Statuses == {0, 200, 204, 302, 403, 404, 500}

(* a variant of Pow2 that grows by one *)
Pow2Mut(n) == n + 1

Pow2(n) == IF n = 0 THEN 1 ELSE IF n = 1 THEN 2 ELSE IF n = 2 THEN 4 ELSE 8

(* a variant of ServerError that takes every status from 300 on *)
ServerErrorMut(status) == status >= 300

(* get's test for the statuses it retries *)
ServerError(status) == status >= 500 /\ status < 600

RECURSIVE getLoop(_, _, _)
getLoop(resps, attempt, slept) ==
    IF attempt > maxRetries
    THEN [ok |-> FALSE, err |-> NewError("unexpected error in retry loop"),
          requests |-> attempt, slept |-> slept]
    ELSE LET status == resps[attempt + 1]
             out(e) == [ok |-> e = nil, err |-> e, requests |-> attempt + 1, slept |-> slept]
         IN  IF status = 0 THEN out(NewError("error executing request"))
             ELSE IF status = 404 THEN out(ErrPageNotFound)
             ELSE IF status = 403 THEN out(ErrForbidden)
             ELSE IF ServerError(status)
                  THEN IF attempt < maxRetries
                       THEN getLoop(resps, attempt + 1, Append(slept, initialBackoff * Pow2(attempt)))
                       ELSE out(NewError("server error after retries"))
             ELSE IF status # 200 THEN out(NewError("unexpected status code"))
             ELSE out(nil)

get(resps) == getLoop(resps, 0, <<>>)

RespSeqs == [1..(maxRetries + 1) -> Statuses]

(* every error (nil included) get can return *)
GetErrs == {get(r).err : r \in RespSeqs}

(* a server that answers every attempt of one get with the same status *)
Always(status) == [i \in 1..(maxRetries + 1) |-> status]

(* the answers of the listing endpoint and of the per-video endpoints *)
PageErrs == GetErrs
VideoErrs == {get(Always(st)).err : st \in {200, 500}}

----------------------------------------------------------------------------
(* What the server serves *)

(* A publication date string: in the layout "02-01-2006 15:04:05" for the
   second t, or in another layout (RFC 3339), which time.Parse rejects. *)
FormatRtve(t) == <<"02-01-2006 15:04:05", t>>
FormatRFC3339(t) == <<"2006-01-02T15:04:05Z07:00", t>>
PubDates == {FormatRtve(t) : t \in Times} \cup {FormatRFC3339(0)}

(* the body of the metadata endpoint for a video: malformed JSON, or a
   VideoResponse with the items of its page *)
MalformedJSON == [json |-> FALSE, items |-> <<>>]
EmptyItems == [json |-> TRUE, items |-> <<>>]
MetaBodies(videoID) ==
    {MalformedJSON, EmptyItems}
    \cup {[json |-> TRUE, items |-> <<[ID |-> videoID, PublicationDate |-> d]>>] : d \in PubDates}

(* the body of the subtitle listing endpoint *)
SubsBodies ==
    {MalformedJSON, [json |-> TRUE, items |-> <<[src |-> "es.vtt", lang |-> "es"]>>]}

(* what the caller's visitor may return *)
VisitorReturns == {nil, NewError("stop processing"), ErrMaxVideosReached}

----------------------------------------------------------------------------
(* The scraper's operations, as functions of the server's answer *)

(* time.Parse(rtveLayout, s) *)
ParseTime(s) ==
    IF s[1] = "02-01-2006 15:04:05"
    THEN [t |-> s[2], err |-> nil]
    ELSE [t |-> 0, err |-> NewError("parsing time: cannot parse")]

Before(a, b) == a < b      \* time.Time.Before
After(a, b) == a > b       \* time.Time.After

(* Scrapper.scrape: one VideoInfo per distinct link of the page; n links *)
scrape(p, n) == [i \in 1..n |-> [ID |-> <<p, i>>]]

(* Scrapper.ScrapePage *)
ScrapePage(p, getErr, n) ==
    IF getErr # nil
    THEN [videos |-> <<>>, err |-> WrapW("error downloading HTML", getErr)]
    ELSE [videos |-> scrape(p, n), err |-> nil]

(* a variant of Parse that takes the last item of the response *)
ParseMut(m, body) ==
    IF ~body.json THEN [m |-> m, err |-> WrapV("error unmarshaling JSON", nil)]
    ELSE IF Len(body.items) = 0 THEN [m |-> m, err |-> NewError("no video metadata found")]
    ELSE [m |-> body.items[Len(body.items)], err |-> nil]

(* VideoMetadata.Parse *)
Parse(m, body) ==
    IF ~body.json THEN [m |-> m, err |-> WrapV("error unmarshaling JSON", nil)]
    ELSE IF Len(body.items) = 0 THEN [m |-> m, err |-> NewError("no video metadata found")]
    ELSE [m |-> body.items[1], err |-> nil]

EmptyMetadata == [ID |-> NoID, PublicationDate |-> <<"", 0>>]

(* Scrapper.DownloadVideoMeta *)
DownloadVideoMeta(videoID, getErr, body) ==
    IF getErr # nil
    THEN [m |-> Nil, err |-> WrapV("error fetching video metadata", getErr)]
    ELSE Parse(EmptyMetadata, body)

(* Scrapper.FetchSubtitles *)
FetchSubtitles(meta, getErr, body) ==
    IF getErr # nil THEN [subs |-> Nil, err |-> getErr]
    ELSE IF ~body.json THEN [subs |-> Nil, err |-> NewError("invalid character")]
    ELSE [subs |-> [VideoID |-> meta.ID, Subtitles |-> body.items], err |-> nil]

----------------------------------------------------------------------------
(* package api *)

NewFetchStats == [VideosProcessed |-> 0, ErrorCount |-> 0, Errors |-> <<>>, PagesScraped |-> 0]

(* a variant of RecordError that appends the error and forgets the counter *)
RecordErrorMut(s, e) == [s EXCEPT !.Errors = Append(@, e)]

(* stats.ErrorCount++; stats.Errors = append(stats.Errors, e) *)
RecordError(s, e) == [s EXCEPT !.ErrorCount = @ + 1, !.Errors = Append(@, e)]

(* FetchShow's validation of the show ID *)
ValidShow(show) == show \in ListShows

(* a variant of InvalidRange that also rejects a range of one instant *)
InvalidRangeMut(s, e) == ~After(e, s)

(* FetchShow's validation of the date range: endDate.Before(startDate) *)
InvalidRange(s, e) == Before(e, s)

(* FetchShow's test of a page error for the end of the pagination *)
IsEndOfPages(err) == err = ErrPageNotFound \/ err = ErrForbidden

(* FetchShow's error for a fatal page error *)
PageError(err) == WrapW("error scraping page", err)

(* a variant of BeforeRange that skips a video published at startDate *)
BeforeRangeMut(pubDate, s) == ~After(pubDate, s)

(* a variant of AfterRange that also skips a video published at endDate *)
AfterRangeMut(pubDate, e) == ~Before(pubDate, e)

(* FetchShow's date filter on a parsed publication date *)
BeforeRange(pubDate, s) == Before(pubDate, s)
AfterRange(pubDate, e) == After(pubDate, e)

(* a variant of WithSubtitles that drops the error of FetchSubtitles *)
WithSubtitlesMut(res, subtitles, err) == [res EXCEPT !.Subtitles = subtitles]

(* a variant of PageAfterProbe without the rollback *)
PageAfterProbeMut(p) == p + 1

(* FetchShow's page counter after a lookahead that found an in-range video:
   page-- in the lookahead block, then the page++ that ends the iteration *)
PageAfterProbe(p) == (p - 1) + 1

(* FetchShow's result after FetchSubtitles returned (subtitles, err) *)
WithSubtitles(res, subtitles, err) ==
    IF err # nil THEN [res EXCEPT !.SubtitlesError = err]
    ELSE [res EXCEPT !.Subtitles = subtitles]

(* a variant of VisitorFailed that ignores what the visitor returned *)
VisitorFailedMut(err) == FALSE

(* FetchShow's test of what the visitor returned *)
VisitorFailed(err) == err # nil

(* a variant of VisitorError that formats the visitor's error with %v *)
VisitorErrorMut(err) == WrapV("visitor function returned error for video", err)

(* FetchShow's error for a visitor error *)
VisitorError(err) == WrapW("visitor function returned error for video", err)

(* a variant of LimitReached that lets one more video through *)
LimitReachedMut(mv, cnt) == mv > 0 /\ cnt > mv

(* FetchShowLatest's limit check in wrappedVisitor *)
LimitReached(mv, cnt) == mv > 0 /\ cnt >= mv

(* a variant of wrappedVisitor for which maxVideos = 0 is a limit of zero *)
wrappedVisitorMut(mv, cnt, r) ==
    IF cnt >= mv
    THEN [err |-> ErrMaxVideosReached, count |-> cnt, called |-> FALSE]
    ELSE [err |-> r, count |-> cnt + 1, called |-> TRUE]

(* FetchShowLatest's wrappedVisitor, r being what the caller's visitor
   returns if it is called *)
wrappedVisitor(mv, cnt, r) ==
    IF LimitReached(mv, cnt)
    THEN [err |-> ErrMaxVideosReached, count |-> cnt, called |-> FALSE]
    ELSE [err |-> r, count |-> cnt + 1, called |-> TRUE]

(* the visitor FetchShow was given: the caller's, or FetchShowLatest's wrapper *)
visitor(a, mv, cnt, r) ==
    IF a = "FetchShowLatest" THEN wrappedVisitor(mv, cnt, r)
    ELSE [err |-> r, count |-> cnt, called |-> TRUE]

(* a variant of IsLimitSignal that compares with == instead of errors.Is *)
IsLimitSignalMut(err) == err = ErrMaxVideosReached

(* FetchShowLatest's test of FetchShow's error for the limit signal *)
IsLimitSignal(err) == err # nil /\ ErrorsIs(err, ErrMaxVideosReached)

(* a variant of FetchShowLatestReturn that returns (nil, nil) at the limit *)
FetchShowLatestReturnMut(s, err) ==
    IF err # nil /\ ErrorsIs(err, ErrMaxVideosReached) THEN [stats |-> Nil, err |-> nil]
    ELSE [stats |-> s, err |-> err]

(* what FetchShowLatest returns, given what FetchShow returned *)
FetchShowLatestReturn(s, err) ==
    IF IsLimitSignal(err) THEN [stats |-> s, err |-> nil]
    ELSE [stats |-> s, err |-> err]

(* what the called API function returns, given what FetchShow returned *)
ApiReturn(a, s, err) ==
    IF a = "FetchShowLatest" THEN FetchShowLatestReturn(s, err)
    ELSE [stats |-> s, err |-> err]

----------------------------------------------------------------------------
(* The state machine *)

NoResult == [Metadata |-> Nil, Subtitles |-> Nil, SubtitlesError |-> nil]

(* a request to an endpoint ("page", "meta", "subs"; "none": no request) and
   its answer: the error of get, and the body if there was none *)
Answer(endpoint, getErr, body) == [endpoint |-> endpoint, getErr |-> getErr, body |-> body]
NoAnswer == Answer("none", nil, [none |-> TRUE])

(* nothing is being fetched: the state before a call of the API *)
FetchIdle ==
    /\ pc = "idle"
    /\ api = "none" /\ showID = "" /\ startDate = 0 /\ endDate = 0 /\ maxVideos = 0
    /\ stats = Nil
    /\ page = 0 /\ foundVideosInRange = FALSE
    /\ videos = <<>> /\ idx = 1
    /\ videosProcessedThisPage = 0 /\ allVideosBeforeRange = TRUE
    /\ result = NoResult
    /\ probeVideos = <<>> /\ probeIdx = 1 /\ anyInRange = FALSE
    /\ count = 0
    /\ fsErr = nil /\ retStats = Nil /\ retErr = nil
    /\ visitorCalls = 0 /\ visited = NoResult /\ visitorRet = nil /\ visitorErr = nil
    /\ pageErr = nil
    /\ answer = NoAnswer

(* the listing is not fixed: every request is answered freely *)
NoListing == <<"free">>

(* no function is applied on its own *)
FnIdle == fn = "none" /\ arg = <<>> /\ ret = <<>>

(* the videos of the show, and the day each was published: two videos a day *)
Videos == 1..MaxVideos
Day(v) == (v + 1) \div 2
Days == {Day(v) : v \in Videos}

(* an empty output directory, and the empty record of a run *)
EmptyDisk == [meta |-> {}, subs |-> {}]
EmptyLog ==
    [pages |-> 0, listed |-> {}, metaReqs |-> {}, subsReqs |-> {}, metaWrites |-> {}, mkdirs |-> {}]

(* Scrape is not running; the output directory is d *)
ScrapeIdle(d) ==
    /\ spc = "idle" /\ sMaxPages = 0 /\ sPage = 0
    /\ links = <<>> /\ li = 1
    /\ videosDownloaded = 0 /\ errs = <<>> /\ sErr = nil
    /\ disk = d /\ disk0 = d
    /\ log = EmptyLog

Init ==
    /\ FetchIdle
    /\ listing = NoListing
    /\ FnIdle
    /\ ScrapeIdle(EmptyDisk)

(* the locals of one iteration of the main loop, and of the lookahead block,
   hold nothing once their scope has ended *)
EndIteration ==
    /\ videos' = <<>> /\ idx' = 1
    /\ videosProcessedThisPage' = 0 /\ allVideosBeforeRange' = TRUE
    /\ result' = NoResult
EndProbe ==
    /\ probeVideos' = <<>> /\ probeIdx' = 1 /\ anyInRange' = FALSE

(* FetchShow returns (s, err) and the API function a returns to the caller *)
Return(a, s, err) ==
    /\ pc' = "done"
    /\ fsErr' = err
    /\ retStats' = ApiReturn(a, s, err).stats
    /\ retErr' = ApiReturn(a, s, err).err
    /\ EndIteration
    /\ EndProbe

(* FetchShow up to its main loop: validation, stats, page and flag *)
FetchShowEntry(a, show, s, e, mv) ==
    /\ pc = "idle"
    /\ UNCHANGED auxVars
    /\ api' = a /\ showID' = show /\ startDate' = s /\ endDate' = e /\ maxVideos' = mv
    /\ IF ~ValidShow(show)
       THEN /\ Return(a, Nil, NewError("invalid show ID"))
            /\ UNCHANGED stats
       ELSE IF InvalidRange(s, e)
       THEN /\ Return(a, Nil, NewError("end date is before start date"))
            /\ UNCHANGED stats
       ELSE /\ stats' = NewFetchStats
            /\ pc' = "ScrapePage"
            /\ UNCHANGED <<retVars, iterVars, probeVars>>
    /\ page' = 0
    /\ foundVideosInRange' = FALSE
    /\ visited' = NoResult
    /\ answer' = NoAnswer
    /\ UNCHANGED pageErr
    /\ UNCHANGED visitVars

(* a call of FetchShow(showID, startDate, endDate, visitor) *)
FetchShow ==
    \E show \in ShowArgs, s \in Times, e \in Times :
        FetchShowEntry("FetchShow", show, s, e, 0)

(* a call of FetchShowAll(showID, visitor) *)
FetchShowAll ==
    \E show \in ShowArgs :
        FetchShowEntry("FetchShowAll", show, Date2000, NowPlus24h, 0)

(* a call of FetchShowLatest(showID, maxVideos, visitor) *)
FetchShowLatest ==
    \E show \in ShowArgs, mv \in 0..MaxVideosArg :
        FetchShowEntry("FetchShowLatest", show, Date2000, NowPlus24h, mv)

(* a variant of the page count that counts a fetched page twice *)
CountPageMut(s) == [s EXCEPT !.PagesScraped = @ + 2]

(* stats.PagesScraped++ after a successful fetch of the main loop *)
CountPage(s) == [s EXCEPT !.PagesScraped = @ + 1]

(* top of FetchShow's main loop: ScrapePage(page), the error handling, the
   page count and the empty-page test *)
ScrapePageStep ==
    /\ pc = "ScrapePage"
    /\ UNCHANGED auxVars
    /\ \E getErr \in PageErrs, n \in 0..MaxLinks :
        /\ page > MaxPage => (getErr # nil \/ n = 0)
        /\ getErr # nil => n = 0
        /\ LET r == ScrapePage(page, getErr, n) IN
           IF r.err # nil
           THEN /\ IF IsEndOfPages(r.err)
                   THEN Return(api, stats, nil)
                   ELSE Return(api, stats, PageError(r.err))
                /\ UNCHANGED stats
           ELSE IF Len(r.videos) = 0
           THEN /\ stats' = CountPage(stats)
                /\ Return(api, stats', nil)
           ELSE /\ stats' = CountPage(stats)
                /\ videos' = r.videos
                /\ idx' = 1
                /\ videosProcessedThisPage' = 0
                /\ allVideosBeforeRange' = TRUE
                /\ pc' = "forVideos"
                /\ UNCHANGED <<retVars, result, probeVars>>
        /\ pageErr' = ScrapePage(page, getErr, n).err
        /\ answer' = Answer("page", getErr, [links |-> n])
    /\ visited' = NoResult
    /\ UNCHANGED <<callVars, page, foundVideosInRange, visitVars>>

(* one iteration of the loop over videos, up to the date filter *)
DownloadVideoMetaStep ==
    /\ pc = "forVideos"
    /\ UNCHANGED auxVars
    /\ idx <= Len(videos)
    /\ \E getErr \in VideoErrs, body \in MetaBodies(videos[idx].ID) :
        LET r == DownloadVideoMeta(videos[idx].ID, getErr, body)
            d == IF r.err = nil THEN ParseTime(r.m.PublicationDate) ELSE [t |-> 0, err |-> nil]
            bad == r.err # nil \/ d.err # nil
        IN
        /\ getErr # nil => body = EmptyItems
        /\ bad => stats.ErrorCount < MaxFaults
        /\ IF r.err # nil
           THEN /\ stats' = RecordError(stats, WrapW("error fetching metadata for video", r.err))
                /\ idx' = idx + 1
                /\ UNCHANGED <<pc, foundVideosInRange, allVideosBeforeRange, result>>
           ELSE IF d.err # nil
           THEN /\ stats' = RecordError(stats, WrapW("error parsing date for video", d.err))
                /\ idx' = idx + 1
                /\ UNCHANGED <<pc, foundVideosInRange, allVideosBeforeRange, result>>
           ELSE IF BeforeRange(d.t, startDate)
           THEN /\ idx' = idx + 1
                /\ UNCHANGED <<pc, stats, foundVideosInRange, allVideosBeforeRange, result>>
           ELSE IF AfterRange(d.t, endDate)
           THEN /\ allVideosBeforeRange' = FALSE
                /\ idx' = idx + 1
                /\ UNCHANGED <<pc, stats, foundVideosInRange, result>>
           ELSE /\ foundVideosInRange' = TRUE
                /\ allVideosBeforeRange' = FALSE
                /\ result' = [Metadata |-> r.m, Subtitles |-> Nil, SubtitlesError |-> nil]
                /\ pc' = "FetchSubtitles"
                /\ UNCHANGED <<stats, idx>>
        /\ answer' = Answer("meta", getErr, body)
    /\ visited' = NoResult
    /\ UNCHANGED <<callVars, page, videos, videosProcessedThisPage, probeVars, retVars, visitVars,
                   pageErr>>

(* the subtitles of an in-range video *)
FetchSubtitlesStep ==
    /\ pc = "FetchSubtitles"
    /\ UNCHANGED auxVars
    /\ \E getErr \in VideoErrs, body \in SubsBodies :
        LET r == FetchSubtitles(result.Metadata, getErr, body) IN
        /\ getErr # nil => body = MalformedJSON
        /\ r.err # nil => stats.ErrorCount < MaxFaults
        /\ result' = WithSubtitles(result, r.subs, r.err)
        /\ stats' = IF r.err # nil
                    THEN RecordError(stats, WrapW("error fetching subtitles for video", r.err))
                    ELSE stats
        /\ answer' = Answer("subs", getErr, body)
    /\ pc' = "visitor"
    /\ visited' = NoResult
    /\ UNCHANGED <<callVars, page, foundVideosInRange, videos, idx, videosProcessedThisPage,
                   allVideosBeforeRange, probeVars, retVars, visitVars, pageErr>>

(* the call of the visitor and what follows it in the iteration *)
VisitorStep ==
    /\ pc = "visitor"
    /\ UNCHANGED auxVars
    /\ \E r \in VisitorReturns :
        LET v == visitor(api, maxVideos, count, r) IN
        /\ ~v.called => r = nil
        /\ count' = v.count
        /\ visitorCalls' = IF v.called THEN visitorCalls + 1 ELSE visitorCalls
        /\ visited' = IF v.called THEN result ELSE NoResult
        /\ visitorRet' = IF v.called THEN r ELSE visitorRet
        /\ visitorErr' = v.err
        /\ IF VisitorFailed(v.err)
           THEN /\ Return(api, stats, VisitorError(v.err))
                /\ UNCHANGED stats
           ELSE /\ stats' = [stats EXCEPT !.VideosProcessed = @ + 1]
                /\ videosProcessedThisPage' = videosProcessedThisPage + 1
                /\ idx' = idx + 1
                /\ result' = NoResult
                /\ pc' = "forVideos"
                /\ UNCHANGED <<retVars, videos, allVideosBeforeRange, probeVars>>
    /\ answer' = NoAnswer
    /\ UNCHANGED pageErr
    /\ UNCHANGED <<callVars, page, foundVideosInRange>>

(* a variant of BoundaryStop that does not ask for an earlier in-range video *)
BoundaryStopMut(found, allBefore) == allBefore

(* FetchShow's test after the loop over a page's videos: the range boundary
   has been crossed *)
BoundaryStop(found, allBefore) == found /\ allBefore

(* a variant of ShouldProbe that does not look at the page's deliveries *)
ShouldProbeMut(processed, found) == found

(* FetchShow's test for the lookahead, after the boundary stop did not fire *)
ShouldProbe(processed, found) == processed = 0 /\ found

(* after the loop over videos: the boundary stop, the decision to probe,
   or the next page *)
EndOfPage ==
    /\ pc = "forVideos"
    /\ UNCHANGED auxVars
    /\ idx > Len(videos)
    /\ IF BoundaryStop(foundVideosInRange, allVideosBeforeRange)
       THEN /\ Return(api, stats, nil)
            /\ UNCHANGED page
       ELSE IF ShouldProbe(videosProcessedThisPage, foundVideosInRange)
       THEN /\ page' = page + 1
            /\ pc' = "probe"
            /\ EndIteration
            /\ UNCHANGED <<retVars, probeVars>>
       ELSE /\ page' = page + 1
            /\ pc' = "ScrapePage"
            /\ EndIteration
            /\ UNCHANGED <<retVars, probeVars>>
    /\ answer' = NoAnswer
    /\ UNCHANGED pageErr
    /\ visited' = NoResult
    /\ UNCHANGED <<callVars, stats, foundVideosInRange, visitVars>>

(* a variant of ProbeInRange that takes the videos dated after the range *)
ProbeInRangeMut(pubDate, s, e) == AfterRange(pubDate, e)

(* the lookahead's test of a video of the probed page *)
ProbeInRange(pubDate, s, e) == ~BeforeRange(pubDate, s) /\ ~AfterRange(pubDate, e)

(* the lookahead: ScrapePage of the next page *)
ProbeScrapePage ==
    /\ pc = "probe"
    /\ UNCHANGED auxVars
    /\ \E getErr \in PageErrs, n \in 0..MaxLinks :
        /\ page > MaxPage => (getErr # nil \/ n = 0)
        /\ getErr # nil => n = 0
        /\ LET r == ScrapePage(page, getErr, n) IN
           IF r.err # nil \/ Len(r.videos) = 0
           THEN Return(api, stats, nil)
           ELSE /\ probeVideos' = r.videos
                /\ probeIdx' = 1
                /\ anyInRange' = FALSE
                /\ pc' = "probeVideos"
                /\ UNCHANGED <<retVars, iterVars>>
        /\ answer' = Answer("page", getErr, [links |-> n])
    /\ visited' = NoResult
    /\ UNCHANGED <<callVars, stats, page, foundVideosInRange, visitVars, pageErr>>

(* the lookahead: one iteration of its loop over the probed page *)
ProbeVideo ==
    /\ pc = "probeVideos"
    /\ UNCHANGED auxVars
    /\ ~anyInRange
    /\ probeIdx <= Len(probeVideos)
    /\ \E getErr \in VideoErrs, body \in MetaBodies(probeVideos[probeIdx].ID) :
        LET r == DownloadVideoMeta(probeVideos[probeIdx].ID, getErr, body)
            d == IF r.err = nil THEN ParseTime(r.m.PublicationDate) ELSE [t |-> 0, err |-> nil]
        IN
        /\ getErr # nil => body = EmptyItems
        /\ IF r.err # nil \/ d.err # nil
           THEN /\ probeIdx' = probeIdx + 1
                /\ UNCHANGED anyInRange
           ELSE IF ProbeInRange(d.t, startDate, endDate)
           THEN /\ anyInRange' = TRUE
                /\ UNCHANGED probeIdx
           ELSE /\ probeIdx' = probeIdx + 1
                /\ UNCHANGED anyInRange
        /\ answer' = Answer("meta", getErr, body)
    /\ visited' = NoResult
    /\ UNCHANGED <<pc, callVars, stats, loopVars, probeVideos, retVars, visitVars, pageErr>>

(* the lookahead: after its loop, stop or roll the page counter back and go on *)
ProbeEnd ==
    /\ pc = "probeVideos"
    /\ UNCHANGED auxVars
    /\ anyInRange \/ probeIdx > Len(probeVideos)
    /\ IF ~anyInRange
       THEN /\ Return(api, stats, nil)
            /\ UNCHANGED page
       ELSE /\ page' = PageAfterProbe(page)
            /\ pc' = "ScrapePage"
            /\ EndProbe
            /\ UNCHANGED <<retVars, iterVars>>
    /\ answer' = NoAnswer
    /\ UNCHANGED pageErr
    /\ visited' = NoResult
    /\ UNCHANGED <<callVars, stats, foundVideosInRange, visitVars>>

Next ==
    \/ FetchShow
    \/ FetchShowAll
    \/ FetchShowLatest
    \/ ScrapePageStep
    \/ DownloadVideoMetaStep
    \/ FetchSubtitlesStep
    \/ VisitorStep
    \/ EndOfPage
    \/ ProbeScrapePage
    \/ ProbeVideo
    \/ ProbeEnd

Spec == Init /\ [][Next]_vars

----------------------------------------------------------------------------
(* Calls with every registered show: the calls and the first page fetch *)

AllShowArgs == urlMap \cup {"non-existent-show", ""}

CallAnyShow ==
    \E show \in AllShowArgs, s \in Times, e \in Times, mv \in 0..MaxVideosArg :
        \/ FetchShowEntry("FetchShow", show, s, e, 0)
        \/ FetchShowEntry("FetchShowAll", show, Date2000, NowPlus24h, 0)
        \/ FetchShowEntry("FetchShowLatest", show, Date2000, NowPlus24h, mv)

NextValidation ==
    \/ CallAnyShow
    \/ ScrapePageStep

SpecValidation == Init /\ [][NextValidation]_vars

----------------------------------------------------------------------------
(* Properties *)

(* the server answered the metadata request a with a video whose publication
   date parses, and the second it parses to *)
MetaOK(a) ==
    /\ a.endpoint = "meta"
    /\ a.getErr = nil
    /\ a.body.json
    /\ Len(a.body.items) > 0
    /\ a.body.items[1].PublicationDate[1] = "02-01-2006 15:04:05"
DateOf(a) == a.body.items[1].PublicationDate[2]

(* the metadata request a of the main loop failed, in the fetch or in the
   parse of the publication date *)
MetaFails(a) == a.endpoint = "meta" /\ ~MetaOK(a)

(* the subtitle listing request a failed *)
SubsFails(a) == a.endpoint = "subs" /\ (a.getErr # nil \/ ~a.body.json)

(* the VideoResult res carries a publication date within [startDate, endDate] *)
InRange(res) ==
    /\ res.Metadata # Nil
    /\ res.Metadata.PublicationDate[1] = "02-01-2006 15:04:05"
    /\ startDate <= res.Metadata.PublicationDate[2]
    /\ res.Metadata.PublicationDate[2] <= endDate

(* FetchShowLatest's wrapper raised the limit signal: the run ended with an
   error of the visitor FetchShow called that the caller's visitor did not return *)
LimitFired == api = "FetchShowLatest" /\ visitorErr # nil /\ visitorRet = nil

(* the arguments of the call fail FetchShow's validation *)
BadArgs == showID \notin urlMap \/ endDate < startDate

(* C1: the date range is inclusive at both ends. Every video handed to the
   visitor has a publication date t with startDate <= t <= endDate, and a
   video the main loop examines is selected for delivery exactly when its
   date is in that closed interval: t = startDate and t = endDate are
   selected, a second before startDate or after endDate never is. *)
C1_InclusiveRange ==
    /\ pc \in {"FetchSubtitles", "visitor"} => InRange(result)
    /\ visited # NoResult => InRange(visited)
    /\ (pc # "probeVideos" /\ MetaOK(answer)) =>
          (pc = "FetchSubtitles" <=>
              (startDate <= DateOf(answer) /\ DateOf(answer) <= endDate))

(* a video published at endDate, later than startDate, has been delivered *)
C1_Witness ==
    /\ api = "FetchShow"
    /\ visited # NoResult
    /\ startDate < endDate
    /\ visited.Metadata.PublicationDate = FormatRtve(endDate)

(* C2: FetchShowLatest with maxVideos = N > 0 never invokes the caller's
   visitor more than N times; when the limit signal is raised the visitor
   has been invoked exactly N times and VideosProcessed is exactly N; count
   is the number of invocations. *)
C2_ExactCount ==
    (api = "FetchShowLatest" /\ maxVideos > 0) =>
        /\ visitorCalls <= maxVideos
        /\ count = visitorCalls
        /\ stats # Nil => stats.VideosProcessed <= maxVideos
        /\ (pc = "done" /\ LimitFired) =>
              /\ visitorCalls = maxVideos
              /\ retStats # Nil
              /\ retStats.VideosProcessed = maxVideos

(* the limit of two videos was reached and the run returned *)
C2_Witness ==
    /\ pc = "done"
    /\ LimitFired
    /\ maxVideos = MaxVideosArg
    /\ visitorCalls = MaxVideosArg
    /\ retStats.VideosProcessed = MaxVideosArg

(* C3: when FetchShowLatest stops because of the limit signal, FetchShow's
   error wraps ErrMaxVideosReached and FetchShowLatest returns a nil error
   with non-nil stats. *)
C3_LimitIsSuccess ==
    (pc = "done" /\ LimitFired) =>
        /\ fsErr # nil
        /\ ErrorsIs(fsErr, ErrMaxVideosReached)
        /\ retErr = nil
        /\ retStats # Nil

(* the limit signal came back wrapped and was turned into a nil error *)
C3_Witness ==
    /\ pc = "done"
    /\ LimitFired
    /\ fsErr = VisitorError(ErrMaxVideosReached)
    /\ retErr = nil

(* C4: a page fetch of the main loop that ends in ErrPageNotFound (404) or
   ErrForbidden (403) ends the run gracefully: FetchShow returns a nil error
   and the stats. *)
C4_GracefulEndOfPages ==
    (/\ pc = "done"
     /\ pageErr # nil
     /\ (ErrorsIs(pageErr, ErrPageNotFound) \/ ErrorsIs(pageErr, ErrForbidden)))
    => (fsErr = nil /\ retErr = nil /\ retStats # Nil)

(* C5: a non-nil error of the visitor stops the run in the same step: the
   function has returned and no step of it can follow (no visitor call, no
   request), no request was sent in that step, the error returned is non-nil,
   the stats returned are those accumulated so far, and VideosProcessed counts
   only the invocations that returned nil. *)
C5_VisitorErrorStops ==
    visitorErr # nil =>
        /\ pc = "done"
        /\ ~ENABLED Next
        /\ answer = NoAnswer
        /\ fsErr # nil
        /\ retStats # Nil
        /\ retStats = stats
        /\ stats.VideosProcessed =
              (IF visitorRet = nil THEN visitorCalls ELSE visitorCalls - 1)

(* the caller's visitor failed on its second video *)
C5_Witness ==
    /\ api = "FetchShow"
    /\ visitorErr = NewError("stop processing")
    /\ visitorCalls = 2
    /\ retStats.VideosProcessed = 1
    /\ retErr # nil

(* C6 as stated: the error FetchShow returns after a visitor error e is e
   itself, unchanged. *)
C6_VerbatimError ==
    (pc = "done" /\ visitorErr # nil) => fsErr = visitorErr

(* C6: the error FetchShow returns after a visitor error e is a new error
   that wraps e: it is not e, errors.Is finds e in its chain, and unwrapping
   it once gives e. *)
C6_WrappedError ==
    (pc = "done" /\ visitorErr # nil) =>
        /\ fsErr # visitorErr
        /\ ErrorsIs(fsErr, visitorErr)
        /\ Tail(fsErr) = visitorErr

(* FetchShow returned the wrapped error of the caller's visitor *)
C6_Witness ==
    /\ pc = "done"
    /\ api = "FetchShow"
    /\ visitorRet = NewError("stop processing")
    /\ retErr = WrapW("visitor function returned error for video", visitorRet)

(* C7: a call with a show ID outside the registry or with endDate before
   startDate returns an error at once, before any page fetch or visitor call;
   a call with a registered show and endDate >= startDate, endDate = startDate
   included, passes validation. *)
C7_Validation ==
    pc # "idle" =>
        /\ BadArgs =>
              /\ pc = "done"
              /\ retErr # nil
              /\ stats = Nil
              /\ pageErr = nil
              /\ answer = NoAnswer
              /\ visitorCalls = 0
        /\ ~BadArgs =>
              /\ stats # Nil
              /\ fsErr # NewError("invalid show ID")
              /\ fsErr # NewError("end date is before start date")

(* a call with a range of one instant fetched its first page *)
C7_Witness ==
    /\ api = "FetchShow"
    /\ showID = "informe-semanal"
    /\ startDate = endDate
    /\ answer.endpoint = "page"
    /\ stats # Nil

(* C8 as stated: the stats are non-nil whatever the outcome of the call. *)
C8_StatsAlways ==
    pc = "done" => retStats # Nil

(* C8: the stats returned are nil exactly when the call failed validation;
   on graceful completion, on a fatal page error, on a visitor error and at
   the limit they are non-nil and are the stats accumulated. *)
C8_StatsUnlessInvalid ==
    pc = "done" =>
        /\ retStats = Nil <=> BadArgs
        /\ ~BadArgs => retStats = stats

(* a run that ended in a fatal page error on its second page returned stats *)
C8_Witness ==
    /\ pc = "done"
    /\ pageErr # nil
    /\ retErr = PageError(pageErr)
    /\ retStats # Nil
    /\ retStats.PagesScraped = 1

(* C9: a metadata fetch or date parse that fails for a video of the main
   loop adds exactly one to ErrorCount and one error to Errors, does not
   invoke the visitor, and the loop goes on to the next link of the same page
   without returning. *)
C9_VideoFailureSkips ==
    [][(pc = "forVideos" /\ MetaFails(answer')) =>
          /\ stats'.ErrorCount = stats.ErrorCount + 1
          /\ Len(stats'.Errors) = Len(stats.Errors) + 1
          /\ stats'.VideosProcessed = stats.VideosProcessed
          /\ stats'.PagesScraped = stats.PagesScraped
          /\ visitorCalls' = visitorCalls
          /\ visited' = NoResult
          /\ pc' = "forVideos"
          /\ idx' = idx + 1
          /\ videos' = videos
          /\ page' = page
          /\ fsErr' = nil]_vars

(* after a date that did not parse was recorded, the next link of the same
   page was delivered *)
C9_Witness ==
    /\ stats # Nil
    /\ stats.ErrorCount = 1
    /\ stats.Errors[1][1] = "error parsing date for video"
    /\ page = 0
    /\ idx = 3
    /\ visited # NoResult
    /\ visited.Metadata.ID = <<0, 2>>

(* C10: a failed subtitle fetch is recorded and the visitor is still invoked,
   with SubtitlesError set and Subtitles nil; every result handed to the
   visitor has non-nil Metadata and never both Subtitles and SubtitlesError. *)
C10_SubtitleFailure ==
    /\ SubsFails(answer) =>
          /\ pc = "visitor"
          /\ result.SubtitlesError # nil
          /\ result.Subtitles = Nil
          /\ stats.ErrorCount >= 1
          /\ stats.ErrorCount = Len(stats.Errors)
          /\ stats.Errors[Len(stats.Errors)] =
                WrapW("error fetching subtitles for video", result.SubtitlesError)
    /\ (answer.endpoint = "subs" /\ ~SubsFails(answer)) =>
          /\ pc = "visitor"
          /\ result.Subtitles # Nil
          /\ result.SubtitlesError = nil
    /\ \A res \in {result, visited} :
          res # NoResult =>
              /\ res.Metadata # Nil
              /\ ~(res.Subtitles # Nil /\ res.SubtitlesError # nil)

(* the visitor was invoked with a result that carries a subtitle error *)
C10_Witness ==
    /\ visited # NoResult
    /\ visited.Metadata # Nil
    /\ visited.Subtitles = Nil
    /\ visited.SubtitlesError # nil
    /\ stats.ErrorCount = 1

(* C11: when the call has returned with stats, whether with a nil error or
   because the visitor returned an error, VideosProcessed equals the number
   of times the caller's visitor was invoked. *)
C11_ProcessedEqualsInvocations ==
    (pc = "done" /\ api = "FetchShow" /\ retStats # Nil) =>
        retStats.VideosProcessed = visitorCalls

----------------------------------------------------------------------------
(* FetchShow, called by FetchShowAll, against a fixed listing: pages ordered
   by descending publication date across pages, served without any failure;
   the listing ends with an empty page *)

ListingPages == UNION {[1..n -> Times] : n \in 1..MaxLinks}
Listings == UNION {[1..k -> ListingPages] : k \in 0..MaxPage}

(* every video of a later page is not newer than any video of an earlier page *)
Ordered(l) ==
    \A p \in DOMAIN l, q \in DOMAIN l :
        p < q => \A i \in DOMAIN l[p], j \in DOMAIN l[q] : l[q][j] <= l[p][i]

InitListing ==
    /\ FetchIdle
    /\ FnIdle
    /\ ScrapeIdle(EmptyDisk)
    /\ listing \in {l \in Listings : Ordered(l)}

(* the answer of the step is the one the fixed listing gives *)
Faithful ==
    /\ answer'.getErr = nil
    /\ answer'.endpoint = "page" =>
          answer'.body.links = (IF page < Len(listing) THEN Len(listing[page + 1]) ELSE 0)
    /\ answer'.endpoint = "meta" =>
          answer'.body = [json |-> TRUE,
                          items |-> <<[ID |-> videos[idx].ID,
                                       PublicationDate |-> FormatRtve(listing[page + 1][idx])]>>]
    /\ answer'.endpoint = "subs" => answer'.body.json

NextListing ==
    \/ FetchShowAll
    \/ ScrapePageStep /\ Faithful
    \/ DownloadVideoMetaStep /\ Faithful
    \/ FetchSubtitlesStep /\ Faithful
    \/ VisitorStep
    \/ EndOfPage

SpecListing == InitListing /\ [][NextListing]_vars

(* the number of videos within [startDate, endDate] among the first i videos
   of a page, and on the first k pages of a listing *)
InRangeOnPage(pg, i) == Cardinality({j \in 1..i : startDate <= pg[j] /\ pg[j] <= endDate})
RECURSIVE InRangeOnPages(_, _)
InRangeOnPages(l, k) ==
    IF k = 0 THEN 0
    ELSE InRangeOnPages(l, k - 1) + InRangeOnPage(l[k], Len(l[k]))

(* C12 as stated: on a listing ordered by descending date across pages, served
   without failure, every in-range video has been passed to the visitor
   exactly once when FetchShow returns. *)
C12_AllDelivered ==
    (pc = "done" /\ ~BadArgs) =>
        visitorCalls = InRangeOnPages(listing, Len(listing))

(* C12: on such a listing, with a visitor that returns nil for every video,
   every in-range video has been passed to the visitor exactly once when
   FetchShow returns: at any point of the main loop the videos delivered are
   the in-range videos before the cursor, one invocation each, a delivery is
   of the in-range video under the cursor, the lookahead is never entered,
   and at the return all in-range videos of the listing have been delivered. *)
C12_AllDeliveredUnlessStopped ==
    /\ pc \notin {"probe", "probeVideos"}
    /\ pc = "forVideos" =>
          /\ page < Len(listing)
          /\ visitorCalls = stats.VideosProcessed
          /\ visitorCalls =
                InRangeOnPages(listing, page) + InRangeOnPage(listing[page + 1], idx - 1)
          /\ visited # NoResult =>
                /\ visited.Metadata.ID = <<page, idx - 1>>
                /\ visited.Metadata.PublicationDate = FormatRtve(listing[page + 1][idx - 1])
                /\ InRange(visited)
    /\ (pc = "done" /\ ~BadArgs /\ visitorErr = nil) =>
          /\ retErr = nil
          /\ visitorCalls = InRangeOnPages(listing, Len(listing))
          /\ retStats.VideosProcessed = visitorCalls

(* a run delivered in-range videos of two pages and passed over others *)
C12_Witness ==
    /\ pc = "done"
    /\ visitorErr = nil
    /\ Len(listing) = MaxPage
    /\ retStats # Nil
    /\ retStats.PagesScraped >= 2
    /\ retStats.VideosProcessed >= 2
    /\ retStats.VideosProcessed = InRangeOnPages(listing, Len(listing))
    /\ \E i \in DOMAIN listing[1] : listing[1][i] > endDate
    /\ \E i \in DOMAIN listing[1] : listing[1][i] <= endDate

----------------------------------------------------------------------------
(* A call of FetchShowAll that runs to its end: every step of the function is
   eventually taken *)

NextAll ==
    \/ FetchShowAll
    \/ ScrapePageStep
    \/ DownloadVideoMetaStep
    \/ FetchSubtitlesStep
    \/ VisitorStep
    \/ EndOfPage
    \/ ProbeScrapePage
    \/ ProbeVideo
    \/ ProbeEnd

SpecAllFair == Init /\ [][NextAll]_vars /\ WF_vars(NextAll)

(* the page counter against the completed iterations of the main loop: at the
   top of an iteration and in the lookahead it equals the pages scraped, and
   inside an iteration it is one less *)
PageNetsOne ==
    /\ pc \in {"ScrapePage", "probe", "probeVideos"} => page = stats.PagesScraped
    /\ pc \in {"forVideos", "FetchSubtitles", "visitor"} => page + 1 = stats.PagesScraped
    /\ page <= MaxPage + 1

(* C13: FetchShow terminates on a finite listing. Every iteration of the main
   loop that does not return leaves the page counter exactly one higher, the
   lookahead included, and the call eventually returns. *)
C13_Terminates ==
    /\ []PageNetsOne
    /\ <>(pc = "done")

(* the lookahead found an in-range video on the third page and is about to
   roll the page counter back *)
C13_Witness ==
    /\ pc = "probeVideos"
    /\ anyInRange
    /\ page = 2
    /\ stats.PagesScraped = 2

----------------------------------------------------------------------------
(* Scrapper.Scrape: the incremental download into the output directory.     *)
(* The directory of a video is the folder of its publication day; its       *)
(* metadata file is video_<id>.json in that folder and its subtitle files   *)
(* are <id>_<lang>.vtt in the folder's subs/ directory.                     *)

(* the output directories a run can find: subtitle files only next to
   metadata written before them. A subs/ directory without a file in it is
   to the program the same as none (checkSubtitlesExist, os.MkdirAll), and
   is not told apart. *)
Disks ==
    {d \in [meta : SUBSET Videos, subs : SUBSET Videos] : d.subs \subseteq d.meta}

(* the links scrape can return for a page: distinct videos, in any order;
   the site lists a video on one page only *)
LinkSeqs ==
    {ls \in UNION {[1..n -> Videos] : n \in 0..MaxLinks} :
        \A i \in DOMAIN ls, j \in DOMAIN ls : i # j => ls[i] # ls[j]}

(* the answers Scrape distinguishes: of the listing endpoint (served, 403,
   404, 5xx to the last retry) and of the metadata endpoint (no item, an item
   with a date that parses, an item with one that does not) *)
ScrapePageErrs == {get(Always(st)).err : st \in {200, 403, 404, 500}}
ScrapeMetaBodies(v) ==
    {EmptyItems}
    \cup {[json |-> TRUE, items |-> <<[ID |-> v, PublicationDate |-> d]>>] :
             d \in {FormatRtve(Date2000), FormatRFC3339(0)}}

(* Scrapper.ScrapePage for a page whose content lists the videos ids *)
ScrapePageIDs(getErr, ids) ==
    IF getErr # nil
    THEN [links |-> <<>>, err |-> WrapW("error downloading HTML", getErr)]
    ELSE [links |-> ids, err |-> nil]

(* Scrape's test of the page limit at the top of its loop *)
PageLimitReached(mp, p) == mp > 0 /\ p > mp

(* Scrape's test of a page error for the end of the listing *)
IsEndOfListing(err) == ErrorsIs(err, ErrPageNotFound) \/ ErrorsIs(err, ErrForbidden)

(* Scrapper.checkVideoExistsByID: the folder that holds video_<id>.json *)
checkVideoExistsByID(d, v) ==
    [exists |-> v \in d.meta, folder |-> IF v \in d.meta THEN Day(v) ELSE 0]

(* a variant of checkSubtitlesExist that asks for more than one entry *)
checkSubtitlesExistMut(d, folder) ==
    Cardinality({w \in d.subs : Day(w) = folder}) > 1

(* Scrapper.checkSubtitlesExist: folder/subs exists and has an entry *)
checkSubtitlesExist(d, folder) ==
    \E w \in d.subs : Day(w) = folder

(* Scrapper.folderForVideo: the folder of the publication day, if it parses *)
folderForVideo(v, meta) ==
    IF ParseTime(meta.PublicationDate).err # nil
    THEN [folder |-> 0, err |-> ParseTime(meta.PublicationDate).err]
    ELSE [folder |-> Day(v), err |-> nil]

(* how the subtitle requests of DownloadSubtitles end: the listing request
   fails, lists nothing, or lists items of which none ("noFile") or some
   ("ok") are downloaded and written *)
SubsOutcomes == {"fetchErr", "noItems", "noFile", "ok"}

(* Scrapper.DownloadSubtitles(meta, outputDir) *)
DownloadSubtitles(d, v, folder, outcome) ==
    LET made == d IN
    IF outcome = "fetchErr" THEN [disk |-> made, err |-> WrapV("failed to fetch subtitles", nil)]
    ELSE IF outcome = "noItems" THEN [disk |-> made, err |-> NewError("no subtitles found for video ID")]
    ELSE IF outcome = "noFile" THEN [disk |-> made, err |-> nil]
    ELSE [disk |-> [made EXCEPT !.subs = @ \cup {v}], err |-> nil]

(* Scrapper.SaveVideoToFile after os.MkdirAll(folder) *)
SaveVideoToFile(d, v) == [d EXCEPT !.meta = @ \cup {v}]

(* the state of a run: the directory, the record of the run, the counter and
   the error list *)
Run(d, lg, n, es) == [disk |-> d, log |-> lg, videosDownloaded |-> n, errs |-> es]

(* one iteration of Scrape's loop over links, for the link of video v, the
   metadata request answered (getErr, body) and the subtitle requests ending
   in outcome *)
ProcessLink(r, v, getErr, body, outcome) ==
    LET c == checkVideoExistsByID(r.disk, v)
        m == DownloadVideoMeta(v, getErr, body)
        asked == [r.log EXCEPT !.metaReqs = @ \cup {v}]
        askedSubs == [asked EXCEPT !.subsReqs = @ \cup {v}]
        metaErr == Append(r.errs, WrapW("Error downloading video metadata", m.err))
    IN
    IF c.exists
    THEN IF ~checkSubtitlesExist(r.disk, c.folder)
         THEN IF m.err # nil
              THEN Run(r.disk, asked, r.videosDownloaded, metaErr)
              ELSE LET ds == DownloadSubtitles(r.disk, v, c.folder, outcome) IN
                   Run(ds.disk, askedSubs, r.videosDownloaded,
                       IF ds.err # nil
                       THEN Append(r.errs, WrapW("Error downloading subtitles", ds.err))
                       ELSE r.errs)
         ELSE r
    ELSE IF m.err # nil
         THEN Run(r.disk, asked, r.videosDownloaded, metaErr)
         ELSE LET f == folderForVideo(v, m.m) IN
              IF f.err # nil
              THEN Run(r.disk, asked, r.videosDownloaded,
                       Append(r.errs, WrapW("Error creating folder", f.err)))
              ELSE LET saved == SaveVideoToFile(r.disk, v)
                       ds == DownloadSubtitles(saved, v, f.folder, outcome)
                       wrote == [askedSubs EXCEPT !.metaWrites = @ \cup {v},
                                                  !.mkdirs = @ \cup {f.folder}]
                   IN  Run(ds.disk, wrote, r.videosDownloaded + 1,
                           IF ds.err # nil
                           THEN Append(r.errs, WrapW("Error downloading subtitles", ds.err))
                           ELSE r.errs)

InitScrape ==
    /\ FetchIdle
    /\ listing = NoListing
    /\ FnIdle
    /\ \E d \in Disks : ScrapeIdle(d)

(* page++. Past the listing every page fails or is empty whatever its index,
   and the page limit was reached earlier when there is one: the first index
   past the listing stands for all the later ones *)
NextPageIndex(p) == IF p > MaxPage THEN p ELSE p + 1

(* the requests for listing pages sent so far, counted up to the first page
   past the listing *)
CountRequest(n) == IF n > MaxPage THEN n ELSE n + 1

(* a call of Scrape(maxPages) *)
ScrapeCall ==
    /\ spc = "idle"
    /\ \E mp \in 0..(MaxPage - 1) : sMaxPages' = mp
    /\ spc' = "top"
    /\ UNCHANGED <<sPage, links, li, videosDownloaded, errs, sErr, disk, disk0, log>>
    /\ UNCHANGED <<fetchVars, listing, fnVars>>

(* top of Scrape's loop: the page limit, ScrapePage(page) and its errors *)
ScrapeTop ==
    /\ spc = "top"
    /\ IF PageLimitReached(sMaxPages, sPage)
       THEN /\ spc' = "returned"
            /\ UNCHANGED <<sPage, links, li, errs, sErr, log>>
       ELSE /\ \E getErr \in ScrapePageErrs, ids \in LinkSeqs :
                 LET r == ScrapePageIDs(getErr, ids) IN
                 /\ sPage >= MaxPage => (getErr # nil \/ ids = <<>>)
                 /\ getErr # nil => ids = <<>>
                 /\ \A i \in DOMAIN ids : ids[i] \notin log.listed
                 /\ sErr' = r.err
                 /\ log' = [log EXCEPT !.pages = CountRequest(@),
                                       !.listed = @ \cup {ids[i] : i \in DOMAIN ids}]
                 /\ IF IsEndOfListing(r.err)
                    THEN /\ spc' = "returned"
                         /\ UNCHANGED <<sPage, links, li, errs>>
                    ELSE IF r.err # nil
                    THEN /\ Len(errs) < MaxFaults
                         /\ errs' = Append(errs, WrapW("error finding links on page", r.err))
                         /\ sPage' = NextPageIndex(sPage)
                         /\ UNCHANGED <<spc, links, li>>
                    ELSE /\ links' = r.links
                         /\ li' = 1
                         /\ spc' = "links"
                         /\ UNCHANGED <<sPage, errs>>
    /\ UNCHANGED <<sMaxPages, videosDownloaded, disk, disk0>>
    /\ UNCHANGED <<fetchVars, listing, fnVars>>

(* one iteration of Scrape's loop over the links of the page *)
ScrapeLink ==
    /\ spc = "links"
    /\ li <= Len(links)
    /\ \E getErr \in VideoErrs, body \in ScrapeMetaBodies(links[li]), outcome \in SubsOutcomes :
         LET r == ProcessLink(Run(disk, log, videosDownloaded, errs),
                              links[li], getErr, body, outcome) IN
         /\ getErr # nil => body = EmptyItems
         /\ Len(r.errs) > Len(errs) => Len(errs) < MaxFaults
         /\ disk' = r.disk
         /\ log' = r.log
         /\ videosDownloaded' = r.videosDownloaded
         /\ errs' = r.errs
    /\ li' = li + 1
    /\ UNCHANGED <<spc, sMaxPages, sPage, links, sErr, disk0>>
    /\ UNCHANGED <<fetchVars, listing, fnVars>>

(* after the loop over links: page++ *)
ScrapeNextPage ==
    /\ spc = "links"
    /\ li > Len(links)
    /\ sPage' = NextPageIndex(sPage)
    /\ links' = <<>>
    /\ li' = 1
    /\ spc' = "top"
    /\ UNCHANGED <<sMaxPages, videosDownloaded, errs, sErr, disk, disk0, log>>
    /\ UNCHANGED <<fetchVars, listing, fnVars>>

NextScrape ==
    \/ ScrapeCall
    \/ ScrapeTop
    \/ ScrapeLink
    \/ ScrapeNextPage

SpecScrape == InitScrape /\ [][NextScrape]_vars

(* a call of Scrape in which every step of the function is eventually taken *)
SpecScrapeFair == InitScrape /\ [][NextScrape]_vars /\ WF_vars(NextScrape)

-----------------------------------------------------------------------------
(* Calls of the pure functions: the arguments are drawn, the function is
   applied, and fn, arg and ret hold the call and what it returned *)

GetCall ==
    /\ fn = "none"
    /\ \E resps \in RespSeqs :
         /\ fn' = "get"
         /\ arg' = resps
         /\ ret' = get(resps)
    /\ UNCHANGED <<fetchVars, listing, scrapeVars>>

SpecGet == Init /\ [][GetCall]_vars

(* Scrapper.downloadWithRetry(url, retries): get's loop without the 404 and
   403 signals *)
RECURSIVE downloadLoop(_, _, _, _)
downloadLoop(resps, retries, attempt, slept) ==
    IF attempt > retries
    THEN [ok |-> FALSE, err |-> NewError("unexpected error in retry loop"),
          requests |-> attempt, slept |-> slept]
    ELSE LET status == resps[attempt + 1]
             out(e) == [ok |-> e = nil, err |-> e, requests |-> attempt + 1, slept |-> slept]
         IN  IF status = 0 THEN out(NewError("error executing request"))
             ELSE IF ServerError(status)
                  THEN IF attempt < retries
                       THEN downloadLoop(resps, retries, attempt + 1,
                                         Append(slept, initialBackoff * Pow2(attempt)))
                       ELSE out(NewError("server error after retries"))
             ELSE IF status # 200 THEN out(NewError("unexpected status code"))
             ELSE out(nil)

downloadWithRetry(resps, retries) == downloadLoop(resps, retries, 0, <<>>)

(* DownloadSubtitles' call: s.downloadWithRetry(item.Src, 3) *)
subtitleRetries == 3

DownloadCall ==
    /\ fn = "none"
    /\ \E resps \in RespSeqs :
         /\ fn' = "downloadWithRetry"
         /\ arg' = resps
         /\ ret' = downloadWithRetry(resps, subtitleRetries)
    /\ UNCHANGED <<fetchVars, listing, scrapeVars>>

NextRetry ==
    \/ GetCall
    \/ DownloadCall

SpecRetry == Init /\ [][NextRetry]_vars

(* Scrapper.scrape.  Page content is a sequence of lines and a line a
   sequence of tokens: the URL prefix of a show (which ends in "/"), a "/",
   or a piece of text without "/" and without a prefix in it. *)
Prefix1 == "https://www.rtve.es/play/videos/telediario-1/"
Prefix2 == "https://www.rtve.es/play/videos/telediario-2/"
Slug == "15-horas-03-10-25"
VideoIDs == {"16755959", "16754110"}

(* the href value of a video of the show with prefix p *)
Link(p, id) == <<p, Slug, "/", id, "/">>

(* lines of a listing page: a link alone, a link followed by attributes, the
   anchors of the repository's test pages, an anchor of another show, and
   text without a link *)
PageLines ==
    UNION {{ Link(Prefix1, id),
             Link(Prefix1, id) \o <<"\" data-id=\"09\">">>,
             <<"<a href=\"">> \o Link(Prefix1, id)
                 \o <<"\" title=\"Telediario - 15 horas - 03", "/", "10", "/", "25\">Video 1<", "/", "a>">>,
             <<"<a href=\"">> \o Link(Prefix1, id)
                 \o <<"\" class=\"some-class\" data-id=\"09\">Video 2<", "/", "a>">>,
             <<"<a href=\"">> \o Link(Prefix2, id) \o <<"\">Wrong show<", "/", "a>">> } : id \in VideoIDs}
    \cup {<<"<span>Some other content with numbers like 10 and 11<", "/", "span>">>}

Contents == UNION {[1..n -> PageLines] : n \in 0..MaxLines}

SetMin(S) == CHOOSE x \in S : \A y \in S : x <= y
SetMax(S) == CHOOSE x \in S : \A y \in S : x >= y

(* the tokens at which a "/" ends *)
EndsInSlash(tok) == tok \in {"/", Prefix1, Prefix2}

(* where the greedy `.*/` of urlMap's Regex ends on a line, for a match that
   starts at token from: at the last "/" of the line; 0 if there is none.
   On the lines of PageLines a prefix is never the last token that ends in
   "/". *)
LastSlash(line, from) ==
    LET ends == {j \in DOMAIN line : j > from /\ line[j] = "/"} IN
    IF ends = {} THEN 0 ELSE SetMax(ends)

(* pattern.FindAllString on one line, each match with its trailing "/"
   trimmed: the match starts at the first prefix of the show; what follows
   its end holds no "/" and so no further match *)
LineMatches(line) ==
    LET starts == {i \in DOMAIN line : line[i] = Prefix1} IN
    IF starts = {} THEN {}
    ELSE LET from == SetMin(starts)
             to == LastSlash(line, from)
         IN  IF to = 0 THEN {} ELSE {SubSeq(line, from, to - 1)}

(* strings.Split(link, "/"), last token: what follows the last "/" of link *)
LastToken(link) ==
    LET cuts == {j \in DOMAIN link : EndsInSlash(link[j])} IN
    SubSeq(link, SetMax(cuts) + 1, Len(link))

(* Scrapper.scrape on the text of a page: the distinct trimmed matches, each
   with its ID *)
scrapeContent(content) ==
    {[URL |-> link, ID |-> LastToken(link)] :
        link \in UNION {LineMatches(content[k]) : k \in DOMAIN content}}

ScrapeFnCall ==
    /\ fn = "none"
    /\ \E content \in Contents :
         /\ fn' = "scrape"
         /\ arg' = content
         /\ ret' = scrapeContent(content)
    /\ UNCHANGED <<fetchVars, listing, scrapeVars>>

SpecScrapeFn == Init /\ [][ScrapeFnCall]_vars

(* VideoMetadata.Parse: the items a response can hold, the responses (not
   JSON, no item, one or two items) and the receivers (the zero value or a
   value parsed before) *)
ParseItems == {[ID |-> <<0, i>>, PublicationDate |-> d] : i \in 1..2, d \in PubDates}
ParseBodies ==
    {MalformedJSON}
    \cup {[json |-> TRUE, items |-> its] : its \in UNION {[1..n -> ParseItems] : n \in 0..2}}
Receivers == {EmptyMetadata} \cup ParseItems

ParseCall ==
    /\ fn = "none"
    /\ \E m \in Receivers, body \in ParseBodies :
         /\ fn' = "Parse"
         /\ arg' = <<m, body>>
         /\ ret' = Parse(m, body)
    /\ UNCHANGED <<fetchVars, listing, scrapeVars>>

SpecParse == Init /\ [][ParseCall]_vars

-----------------------------------------------------------------------------
(* Properties of Scrape *)

(* the output directory holds the metadata file and a subtitle file of
   every video the run has listed *)
CompleteFor(d, vs) == \A v \in vs : v \in d.meta /\ v \in d.subs

(* C14: a Scrape run that starts on an output directory holding the
   metadata and the subtitles of every video it lists returns 0 downloaded
   videos, writes no metadata file, creates no folder, requests neither
   metadata nor subtitles, and leaves the directory as it found it. *)
C14_SecondRunIdle ==
    (spc = "returned" /\ CompleteFor(disk0, log.listed)) =>
        /\ videosDownloaded = 0
        /\ log.metaWrites = {}
        /\ log.mkdirs = {}
        /\ log.metaReqs = {}
        /\ log.subsReqs = {}
        /\ disk = disk0

(* a run over two pages that listed videos, all of them complete on disk *)
C14_Witness ==
    /\ spc = "returned"
    /\ log.pages >= 2
    /\ Cardinality(log.listed) >= 2
    /\ CompleteFor(disk0, log.listed)

(* C15: when a run starts with a video's metadata file on disk and no
   subtitle file in the subs/ directory of its folder, lists the video and
   has no failed request, it requests the video's subtitles, and writes no
   metadata file and creates no folder for it. *)
C15_SubtitleRecovery ==
    (spc = "returned" /\ errs = <<>>) =>
        \A v \in log.listed :
            (v \in disk0.meta /\ ~checkSubtitlesExist(disk0, Day(v))) =>
                /\ v \in log.subsReqs
                /\ v \notin log.metaWrites

(* C16: Scrape(maxPages) with maxPages = M > 0 fetches at most M listing
   pages. *)
C16_AtMostMaxPages ==
    sMaxPages > 0 => log.pages <= sMaxPages

-----------------------------------------------------------------------------
(* Properties of the pure functions *)

(* C17 as stated: get returns the body with no error for any 2xx status. *)
C17_Any2xxReturnsBody ==
    fn = "get" =>
        LET st == arg[ret.requests] IN
        (st >= 200 /\ st < 300) => (ret.ok /\ ret.err = nil)

(* C17, amended: get answers on the first status that is not 5xx; 404 gives
   ErrPageNotFound, 403 gives ErrForbidden, 5xx is retried up to maxRetries
   times and then is an error, 200 returns the body with no error, and every
   other status (other 2xx included) or a transport failure is an error that
   is neither of the two signals. *)
C17_Classifies ==
    fn = "get" =>
        LET st == arg[ret.requests] IN
        /\ \A i \in 1..(ret.requests - 1) : arg[i] >= 500 /\ arg[i] < 600
        /\ Len(ret.slept) = ret.requests - 1
        /\ st = 404 => ret.err = ErrPageNotFound
        /\ st = 403 => ret.err = ErrForbidden
        /\ (st >= 500 /\ st < 600) =>
              /\ ret.requests = maxRetries + 1
              /\ ret.err \notin {nil, ErrPageNotFound, ErrForbidden}
        /\ st = 200 <=> (ret.ok /\ ret.err = nil)
        /\ (st \notin {200, 403, 404} /\ ~(st >= 500 /\ st < 600)) =>
              /\ ~ret.ok
              /\ ret.err \notin {nil, ErrPageNotFound, ErrForbidden}

(* a 204 answered after one retried 5xx *)
C17_Witness ==
    /\ fn = "get"
    /\ ret.requests = 2
    /\ arg[1] = 500
    /\ arg[2] = 204
    /\ ~ret.ok

(* the identifiers of the links of the show in the content *)
LinkIDs(content) ==
    {id \in VideoIDs :
        \E k \in DOMAIN content : \E i \in DOMAIN content[k] :
            /\ i + 4 <= Len(content[k])
            /\ SubSeq(content[k], i, i + 4) = Link(Prefix1, id)}

(* C18: scrape returns exactly one link per distinct video identifier of
   the show's links in the content, each identifier being the final path
   segment of its URL and never a piece of the surrounding markup. *)
C18_OneLinkPerVideo ==
    fn = "scrape" =>
        /\ {v.ID : v \in ret} = {<<id>> : id \in LinkIDs(arg)}
        /\ Cardinality(ret) = Cardinality(LinkIDs(arg))

(* C19: Parse returns an error on a body that is not JSON and on a response
   without items, and the receiver is then what it was before the call; on
   any other response it returns no error and the receiver is the first
   item, whatever items follow it. *)
C19_Parse ==
    fn = "Parse" =>
        LET m == arg[1]
            body == arg[2]
        IN  IF ~body.json \/ Len(body.items) = 0
            THEN ret.err # nil /\ ret.m = m
            ELSE ret.err = nil /\ ret.m = body.items[1]

(* a response with two different items parsed into a receiver that held
   something else *)
C19_Witness ==
    /\ fn = "Parse"
    /\ arg[1] # EmptyMetadata
    /\ Len(arg[2].items) = 2
    /\ arg[2].items[1] # arg[2].items[2]
    /\ arg[1] # arg[2].items[1]
    /\ ret.m = arg[2].items[1]

-----------------------------------------------------------------------------
(* FetchShowLatest without a limit *)

(* a call of FetchShowLatest with maxVideos = 0 *)
Unlimited == api = "FetchShowLatest" /\ maxVideos = 0

(* what FetchShowAll returns for what FetchShow returned: the same *)
SameAsFetchShowAll ==
    /\ retErr = fsErr
    /\ retStats = (IF BadArgs THEN Nil ELSE stats)

(* C20 as stated: with maxVideos = 0 the wrapped visitor never returns the
   limit signal, and FetchShowLatest returns the statistics and the error
   that FetchShowAll returns. *)
C20_SameAsFetchShowAll ==
    Unlimited =>
        /\ ~(visitorErr # nil /\ ErrorsIs(visitorErr, ErrMaxVideosReached))
        /\ pc = "done" => SameAsFetchShowAll

(* C20, amended: with maxVideos = 0 FetchShowLatest calls FetchShow with
   FetchShowAll's date range, its wrapper hands every video to the caller's
   visitor and returns what that visitor returns, never raising the limit
   signal itself, and it returns FetchShow's statistics and error; only
   when the caller's visitor itself returned an error that is the limit
   signal does it return a nil error in place of FetchShow's. *)
C20_ZeroIsUnlimited ==
    Unlimited =>
        /\ startDate = Date2000
        /\ endDate = NowPlus24h
        /\ ~LimitFired
        /\ visitorErr = visitorRet
        /\ count = visitorCalls
        /\ pc = "done" =>
              \/ SameAsFetchShowAll
              \/ /\ visitorRet # nil
                 /\ ErrorsIs(visitorRet, ErrMaxVideosReached)
                 /\ fsErr = VisitorError(visitorRet)
                 /\ retErr = nil
                 /\ retStats = stats

(* an unlimited call that handed more videos to the visitor than any limit
   of the model allows, and returned as FetchShowAll does *)
C20_Witness ==
    /\ Unlimited
    /\ pc = "done"
    /\ visitorCalls > MaxVideosArg
    /\ retStats # Nil
    /\ retStats.VideosProcessed = visitorCalls
    /\ SameAsFetchShowAll

-----------------------------------------------------------------------------
(* Page fetches, boundary stop and lookahead of FetchShow *)

(* the listing request of the last step failed, and not with 404 or 403 *)
PageFetchFailed ==
    /\ answer.endpoint = "page"
    /\ answer.getErr # nil
    /\ ~IsEndOfListing(answer.getErr)

(* C21: a listing-page fetch of FetchShow, in the main loop or in the
   lookahead, that fails with anything but not-found/forbidden makes
   FetchShow return at once with a non-nil error and the statistics
   accumulated so far. *)
C21_PageFailureFatal ==
    PageFetchFailed =>
        /\ pc = "done"
        /\ fsErr # nil
        /\ retStats = stats

-----------------------------------------------------------------------------
(* A listing with a gap: a page with one in-range video, a page without any
   (empty, or with videos dated before start or after end), and a page of
   any videos or none, served without failure to a call of FetchShowAll *)

GapPages ==
    {<<>>} \cup
    {pg \in ListingPages : \A i \in DOMAIN pg : pg[i] < Date2000 \/ pg[i] > NowPlus24h}
InRangePages == {<<t>> : t \in Date2000..NowPlus24h}
GapListings ==
    {<<a, g, b>> : a \in InRangePages, g \in GapPages, b \in ListingPages \cup {<<>>}}

InitGap ==
    /\ FetchIdle
    /\ FnIdle
    /\ ScrapeIdle(EmptyDisk)
    /\ listing \in GapListings

(* the answer to a metadata request of the lookahead is the one the fixed
   listing gives *)
FaithfulProbe ==
    /\ answer'.getErr = nil
    /\ answer'.body = [json |-> TRUE,
                       items |-> <<[ID |-> probeVideos[probeIdx].ID,
                                    PublicationDate |-> FormatRtve(listing[page + 1][probeIdx])]>>]

NextGap ==
    \/ FetchShowAll
    \/ ScrapePageStep /\ Faithful
    \/ DownloadVideoMetaStep /\ Faithful
    \/ FetchSubtitlesStep /\ Faithful
    \/ VisitorStep
    \/ EndOfPage
    \/ ProbeScrapePage /\ Faithful
    \/ ProbeVideo /\ FaithfulProbe
    \/ ProbeEnd

SpecGap == InitGap /\ [][NextGap]_vars

(* the run has returned, and not because of its arguments or its visitor *)
RanToEnd == pc = "done" /\ ~BadArgs /\ visitorErr = nil

(* the page in the middle holds a video dated after the end of the range *)
GapHasNewer == \E i \in DOMAIN listing[2] : listing[2][i] > endDate

(* the number of in-range videos of the page after the gap *)
InRangeAfterGap == InRangeOnPage(listing[3], Len(listing[3]))

(* C22 as stated: a single page that is empty or has no in-range video,
   between two pages with in-range videos, does not end the traversal: the
   in-range videos of the page after it are delivered. *)
C22_GapTolerated ==
    (RanToEnd /\ InRangeAfterGap > 0) => visitorCalls = 1 + InRangeAfterGap

(* C22, amended: the traversal goes over such a page, and delivers the
   in-range videos of the page after it, exactly when the page holds a video
   dated after the end of the range; an empty page, and a page whose videos
   are all dated before the start, end the traversal with a nil error and the
   videos after it are not delivered. PagesScraped counts the pages the main
   loop was served, the empty one that ends the listing included. *)
C22_GapToleratedIfNewer ==
    (RanToEnd /\ InRangeAfterGap > 0) =>
        /\ retErr = nil
        /\ visitorCalls = (IF GapHasNewer THEN 1 + InRangeAfterGap ELSE 1)
        /\ retStats.VideosProcessed = visitorCalls
        /\ retStats.PagesScraped = (IF GapHasNewer THEN Len(listing) + 1 ELSE 2)

(* the run went over a page of two videos, one dated after the range and one
   before it, through the lookahead, and delivered the two videos after it *)
C22_Witness ==
    /\ RanToEnd
    /\ Len(listing[2]) = 2
    /\ listing[2][1] > endDate
    /\ listing[2][2] < startDate
    /\ InRangeAfterGap = 2
    /\ visitorCalls = 3
    /\ retStats.PagesScraped = Len(listing) + 1

(* the lookahead block is running *)
Probing == pc \in {"probe", "probeVideos"}

(* what C23 says of one step of the function *)
LookaheadStep ==
    /\ (pc = "forVideos" /\ idx > Len(videos)) =>
          (pc' = "probe" <=>
              /\ foundVideosInRange
              /\ videosProcessedThisPage = 0
              /\ ~allVideosBeforeRange)
    /\ pc' = "probe" => (pc = "forVideos" /\ page' = page + 1)
    /\ Probing =>
          /\ visitorCalls' = visitorCalls
          /\ visited' = NoResult
          /\ stats' = stats
          /\ page' = page
          /\ answer'.endpoint = "page" <=> pc = "probe"
          /\ pc' = "done" => (~anyInRange /\ fsErr' = nil /\ retErr' = nil /\ retStats' = stats)
          /\ pc' # "done" => pc' \in {"probeVideos", "ScrapePage"}
          /\ pc' = "ScrapePage" => (pc = "probeVideos" /\ anyInRange)
          /\ (pc = "probeVideos" /\ pc' = "probeVideos") => ~anyInRange

(* C23: after in-range videos were found, a page that delivered nothing and
   did not fire the boundary stop makes FetchShow fetch exactly one further
   page as a probe; while it probes, the visitor is not invoked and the
   statistics do not change; a probe page without in-range video ends the run
   with a nil error, otherwise the main loop goes on at the probe page itself
   and delivers each of its in-range videos exactly once. *)
C23_Lookahead ==
    /\ [][LookaheadStep]_vars
    /\ [](Probing => (foundVideosInRange /\ page = 2 /\ stats.PagesScraped = 2))
    /\ []((RanToEnd /\ GapHasNewer) =>
             /\ retErr = nil
             /\ visitorCalls = 1 + InRangeAfterGap
             /\ retStats.VideosProcessed = visitorCalls
             /\ retStats.PagesScraped = (IF InRangeAfterGap > 0 THEN Len(listing) + 1 ELSE 2))

(* a run that probed a page of two videos, one of them in range, went back to
   it and delivered that video *)
C23_Witness ==
    /\ RanToEnd
    /\ GapHasNewer
    /\ Len(listing[3]) = 2
    /\ InRangeAfterGap = 1
    /\ visitorCalls = 2
    /\ retStats.PagesScraped = Len(listing) + 1

(* the loop over the page's videos is at an item, or past the last one *)
AtItem == pc = "forVideos" /\ idx <= Len(videos)
PageCompleted == pc = "forVideos" /\ idx > Len(videos)

(* the metadata request of the step gave a video with a date, and that date
   is not before startDate, or is after endDate *)
SeenNotBefore == MetaOK(answer') /\ DateOf(answer') >= startDate
SeenAfterEnd == MetaOK(answer') /\ DateOf(answer') > endDate
SeenBefore == MetaOK(answer') /\ DateOf(answer') < startDate

(* the stop after a completed page, and what an item dated after the end
   does to the iteration *)
StopAndSkip ==
    /\ PageCompleted =>
          /\ pc' = "done" <=> (foundVideosInRange /\ allVideosBeforeRange)
          /\ pc' = "done" => (fsErr' = nil /\ retStats' = stats)
    /\ (pc = "ScrapePage" /\ pc' = "forVideos") => allVideosBeforeRange'
    /\ (AtItem /\ SeenAfterEnd) =>
          /\ pc' = "forVideos"
          /\ idx' = idx + 1
          /\ visitorCalls' = visitorCalls
          /\ visited' = NoResult
          /\ foundVideosInRange' = foundVideosInRange
          /\ stats' = stats
          /\ ~allVideosBeforeRange'

(* C24 as stated: FetchShow stops after a completed page exactly when an
   in-range video was found before and every item of the page was dated
   strictly before start; an item dated after end is skipped, undelivered,
   leaves foundVideosInRange alone and prevents the stop for its page. *)
C24_StopIffAllDatedBefore ==
    [][/\ StopAndSkip
       /\ AtItem => (allVideosBeforeRange' <=> (allVideosBeforeRange /\ SeenBefore))]_vars

(* C24, amended: FetchShow stops after a completed page exactly when an
   in-range video was found before and no item of the page was seen with a
   date at or after start: an item whose metadata or date could not be
   obtained counts like one dated before start. An item dated after end is
   skipped, undelivered, leaves foundVideosInRange alone and prevents the
   stop for its page. *)
C24_StopIffNoneSeenFromStart ==
    [][/\ StopAndSkip
       /\ AtItem => (allVideosBeforeRange' <=> (allVideosBeforeRange /\ ~SeenNotBefore))]_vars

(* the boundary stop fired on the second page, after a delivery, on a page
   of which one item failed *)
C24_Witness ==
    /\ pc = "done"
    /\ ~BadArgs
    /\ answer = NoAnswer
    /\ visitorErr = nil
    /\ visitorCalls >= 1
    /\ page = 1
    /\ stats.PagesScraped = 2
    /\ stats.ErrorCount = 1
    /\ retErr = nil

-----------------------------------------------------------------------------
(* Retries of the HTTP fetchers *)

(* the waits before the first, second and third retry, in seconds *)
Backoffs == <<1, 2, 4>>

(* C25: get and downloadWithRetry make at most 4 requests for a URL; each
   request but the last was answered with a 5xx status; the waits before the
   retries are 1, 2 and 4 seconds, one per retry; a 5xx answer to the 4th
   request gives an error with no further wait, and a 200 answer to any of
   the 4 requests returns the body. *)
C25_RetryBounded ==
    fn \in {"get", "downloadWithRetry"} =>
        LET n == ret.requests
            st == arg[n]
        IN  /\ n >= 1 /\ n <= 4
            /\ \A i \in 1..(n - 1) : arg[i] >= 500 /\ arg[i] < 600
            /\ ret.slept = SubSeq(Backoffs, 1, n - 1)
            /\ (st >= 500 /\ st < 600) => (n = 4 /\ ~ret.ok /\ ret.err # nil)
            /\ (st < 500 /\ st # 200) => (~ret.ok /\ ret.err # nil)
            /\ st = 200 => (ret.ok /\ ret.err = nil)

(* a download that succeeded at the 4th request, after waits of 1, 2 and 4
   seconds *)
C25_Witness ==
    /\ fn = "downloadWithRetry"
    /\ ret.requests = 4
    /\ arg[4] = 200
    /\ ret.ok
    /\ ret.slept = <<1, 2, 4>>

-----------------------------------------------------------------------------
(* Repair of interrupted runs, and the end of Scrape *)

(* C26: a video whose metadata file was on disk without any subtitle file of
   its own when the run started has its subtitles requested by a run that
   lists it and has no failed request, whatever the other videos of its date
   folder are and whatever subtitles they have. *)
C26_CrashRepair ==
    (spc = "returned" /\ errs = <<>>) =>
        \A v \in log.listed :
            (v \in disk0.meta /\ v \notin disk0.subs) => v \in log.subsReqs

-----------------------------------------------------------------------------
(* Errors of the caller's visitor through FetchShowLatest *)

(* C27: when the caller's visitor has returned a non-nil error,
   FetchShowLatest returns a non-nil error with the statistics; it returns a
   nil error only when FetchShow ended without error or when the wrapper's
   own limit check fired. *)
C27_VisitorErrorSurfaced ==
    (api = "FetchShowLatest" /\ pc = "done") =>
        /\ visitorRet # nil => (retErr # nil /\ retStats # Nil)
        /\ retErr = nil => (fsErr = nil \/ LimitFired)

-----------------------------------------------------------------------------
(* The statistics of a FetchShow run *)

(* one step of a run keeps the counters of the statistics from decreasing, and
   changes PagesScraped only by one, at a fetch of the main loop that
   succeeded *)
StatsStep ==
    (stats # Nil /\ stats' # Nil) =>
        /\ stats'.VideosProcessed >= stats.VideosProcessed
        /\ stats'.ErrorCount >= stats.ErrorCount
        /\ Len(stats'.Errors) >= Len(stats.Errors)
        /\ stats'.PagesScraped >= stats.PagesScraped
        /\ stats'.PagesScraped # stats.PagesScraped =>
              /\ pc = "ScrapePage"
              /\ pageErr' = nil
              /\ stats'.PagesScraped = stats.PagesScraped + 1
        /\ pc \in {"probe", "probeVideos"} => stats' = stats

(* C28: in every state of a FetchShow run ErrorCount equals the length of
   Errors; VideosProcessed, ErrorCount, the length of Errors and PagesScraped
   never decrease; PagesScraped grows only at a successful fetch of the main
   loop, never in the lookahead, and never exceeds the page index plus one. *)
C28_StatsConsistent ==
    /\ [](stats # Nil =>
            /\ stats.ErrorCount = Len(stats.Errors)
            /\ stats.PagesScraped <= page + 1)
    /\ [](retStats # Nil => retStats.ErrorCount = Len(retStats.Errors))
    /\ [][StatsStep]_vars

(* the lookahead is probing the third page after a second page with a failed
   video and no video in range: one error recorded, two pages counted *)
C28_Witness ==
    /\ pc = "probe"
    /\ page = 2
    /\ stats.PagesScraped = 2
    /\ stats.VideosProcessed = 1
    /\ stats.ErrorCount = 1
    /\ Len(stats.Errors) = 1

(* C29: Scrape returns on every finite listing, also with maxPages = 0: when
   from some page index on every fetch of a listing page fails or yields no
   links, the call eventually returns its count and its list of errors. *)
C29_ScrapeReturns == <>(spc = "returned")

-----------------------------------------------------------------------------
(* The video after the last one delivered by FetchShowLatest *)

(* C30: once FetchShowLatest with N > 0 has delivered N videos, the next
   qualifying video leaves no trace: no subtitle request is issued for it and
   the only errors added to the statistics are metadata and date errors of
   skipped items. *)
C30_NoTraceOfNextVideo ==
    [][(api = "FetchShowLatest" /\ LimitReached(maxVideos, count)) =>
          /\ answer'.endpoint # "subs"
          /\ (stats # Nil /\ stats' # Nil /\ stats'.Errors # stats.Errors) =>
                MetaFails(answer')]_vars

====
